---- MODULE Spec2Model ----
(***************************************************************************)
(* Verification model of four FLamby source files:                         *)
(*   flamby/datasets/fed_heart_disease/dataset.py   (SpecHeart, SpecFed)   *)
(*   flamby/results/plot_results.py                 (SpecPlot)             *)
(*   flamby/datasets/fed_tcga_brca/loss.py          (SpecLoss)             *)
(*   flamby/datasets/fed_camelyon16/dataset_creation_scripts/              *)
(*       update_config.py                           (SpecConfig)           *)
(* The four programs share no state; each has its own specification over  *)
(* its own group of variables and leaves the other groups untouched.       *)
(* SpecHeart builds a HeartDiseaseRaw, SpecFed a FedHeartDisease on top of *)
(* a smaller HeartDiseaseRaw.                                              *)
(***************************************************************************)
EXTENDS Integers, Sequences, FiniteSets, TLC

(***************************************************************************)
(* Bounds of the model.                                                    *)
(***************************************************************************)
\* data lines kept from the center files of one data directory, in total
MaxRows == 6
\* lines with a missing value ("?") in one center file
MaxMissing == 1
\* center files present in the data directory
MaxFiles == 2
\* data lines kept from the center files when a FedHeartDisease is built
MaxFedRows == 4
\* result directories read by the plotter (a prefix of dirs_multiple_seeds)
MaxDirs == 2
\* NUM_CLIENTS of a dataset is at most
MaxClients == 2
\* rows, methods or seeds by which the result files differ from a complete
\* benchmark
MaxDeviations == 2
\* samples in a batch passed to the loss
MaxSamples == 3
\* the model outputs (scores) are 0 .. MaxScore
MaxScore == 1
\* the times T are 1 .. MaxTime
MaxTime == 3
\* characters of the --new-path argument
MaxPathLen == 3

(***************************************************************************)
(* State of fed_heart_disease/dataset.py                                   *)
(***************************************************************************)
VARIABLES
    hpc,              \* position of the constructor call
    data_path,        \* the data_path argument
    data_dir,         \* self.data_dir
    configConsulted,  \* check_dataset_from_config has been called
    initialised,      \* self.features .. self.sets have been assigned
    filesRead,        \* centers whose data file has been read
    features,         \* self.features
    labels,           \* self.labels
    centers,          \* self.centers
    sets,             \* self.sets
    splits,           \* per file read: nb, stratify and the binarised labels
    stats,            \* self.mean_of_features, self.std_of_features
    chosen,           \* self.chosen_centers, self.chosen_sets
    raw,              \* the lists of the superclass before the selection
    exception         \* the exception that ended the call

heartVars == <<hpc, data_path, data_dir, configConsulted, initialised,
               filesRead, features, labels, centers, sets, splits, stats,
               chosen, raw, exception>>

(***************************************************************************)
(* State of results/plot_results.py                                        *)
(***************************************************************************)
VARIABLES
    pphase,        \* "read", "plot", "aborted" or "saved"
    num_clients,   \* NUM_CLIENTS of each dataset
    results,       \* results: per dataset the rows of its csv files
    deviations,    \* how far the csv files are from a complete benchmark
    loop_idx,      \* datasets handled by the loop over the results
    drawn,         \* datasets whose bar chart has been drawn
    perr           \* the exception that aborted the script

plotVars == <<pphase, num_clients, results, deviations, loop_idx, drawn,
             perr>>

(***************************************************************************)
(* State of fed_tcga_brca/loss.py                                          *)
(***************************************************************************)
VARIABLES
    lphase,        \* "call" before the first call of forward, then "done"
    batch,         \* the samples passed to forward: score, event E, time T
    sorted_a,      \* the tensor a of the latest call, after the sort
    cumsum,        \* torch.exp(scores_).cumsum(0) of the latest call
    out,           \* the value returned by the latest call
    first_out      \* the value returned by the first call

lossVars == <<lphase, batch, sorted_a, cumsum, out, first_out>>

(***************************************************************************)
(* State of fed_camelyon16/dataset_creation_scripts/update_config.py       *)
(***************************************************************************)
VARIABLES
    cphase,        \* "start", "written" or "exit"
    argv,          \* the command line: new_path (or absent) and debug
    config,        \* the value of dataset_path in the two config files
    exit_code      \* the exit status of the script

cfgVars == <<cphase, argv, config, exit_code>>

vars == <<heartVars, plotVars, lossVars, cfgVars>>

\* each program leaves the state of the three others alone
HeartFrame == UNCHANGED <<plotVars, lossVars, cfgVars>>
PlotFrame == UNCHANGED <<heartVars, lossVars, cfgVars>>
LossFrame == UNCHANGED <<heartVars, plotVars, cfgVars>>
ConfigFrame == UNCHANGED <<heartVars, plotVars, lossVars>>

(***************************************************************************)
(* Generic helpers.                                                        *)
(***************************************************************************)
RECURSIVE SumSeq(_)
SumSeq(s) == IF s = <<>> THEN 0 ELSE Head(s) + SumSeq(Tail(s))

RECURSIVE FilterIdx(_, _, _)
\* [s[k] for k in i..Len(s) if keep[k]], a Python list comprehension
FilterIdx(s, keep, i) ==
    IF i > Len(s) THEN <<>>
    ELSE IF keep[i] THEN <<s[i]>> \o FilterIdx(s, keep, i + 1)
         ELSE FilterIdx(s, keep, i + 1)

Abs(x) == IF x < 0 THEN -x ELSE x

\* the number of positions of s holding a value of the set vs
Count(s, vs) == Cardinality({i \in DOMAIN s : s[i] \in vs})

(***************************************************************************)
(* fed_heart_disease/dataset.py                                            *)
(***************************************************************************)

\* self.centers_number: cleveland 0, hungarian 1, switzerland 2, va 3
centers_number == 0 .. 3

\* self.train_fraction = 0.66, in hundredths
train_fraction == 66

\* values of the label column of the center files (0 = no disease)
LabelValues == {0, 2}

\* one line of a center file: a feature column, the label column, and
\* whether some cell of the line is "?"
FileRow(n) == [x : 0 .. n, y : LabelValues, na : BOOLEAN]

\* the center file of n lines whose lines miss are incomplete, whose labels
\* are ys, and whose complete lines carry the features 1, 2, 3, ...
FileOf(n, miss, ys) ==
    [i \in 1 .. n |->
        [x |-> IF i \in miss THEN 0
               ELSE i - Cardinality({j \in miss : j < i}),
         y |-> IF i \in miss THEN 0 ELSE ys[i],
         na |-> i \in miss]]

\* if data_path is None .. else .. : the directory, or the ValueError
ResolveDataDirNoCheck(p) ==
    IF p = "None" THEN [exc |-> "none", dir |-> "config", consulted |-> TRUE]
    ELSE [exc |-> "none", dir |-> "path", consulted |-> FALSE]

ResolveDataDir(p) ==
    IF p = "None" THEN [exc |-> "none", dir |-> "config", consulted |-> TRUE]
    ELSE IF p # "exists"
         THEN [exc |-> "ValueError", dir |-> "unset", consulted |-> FALSE]
         ELSE [exc |-> "none", dir |-> "path", consulted |-> FALSE]

\* df.replace("?", NaN).drop(..).dropna(axis=0): the lines without "?"
DropNa(file) == FilterIdx(file, [i \in DOMAIN file |-> ~file[i].na], 1)

\* center_y.where(center_y == 0, 1): keep 0, put 1 for every other value
Binarise(y) == IF y = 0 THEN 0 ELSE 1

\* the condition under which the split is stratified
StratifyCondAbove1(cur) ==
    LET levels == {cur[i] : i \in DOMAIN cur}
    IN  /\ Cardinality(levels) > 1
        /\ \A lev \in levels : Count(cur, {lev}) > 1

StratifyCond(cur) ==
    LET levels == {cur[i] : i \in DOMAIN cur}
    IN  /\ Cardinality(levels) > 1
        /\ \A lev \in levels : Count(cur, {lev}) > 2

\* sklearn _validate_shuffle_split: n_test = ceil(test_size * n),
\* n_train = floor(train_size * n), with test_size = 1.0 - train_fraction.
\* (In binary floating point 1.0 - 0.66 is just below 0.34 and 0.66 just
\* above; the floor and the ceiling are those of the exact products.)
NTrain(n) == (train_fraction * n) \div 100

NTestFloor(n) == ((100 - train_fraction) * n) \div 100

NTest(n) == ((100 - train_fraction) * n + 99) \div 100

\* train_test_split raises ValueError when the train set would be empty
SplitRaises(n) == NTrain(n) = 0 \/ NTrain(n) + NTest(n) > n

\* sklearn _approximate_mode for two classes: the numbers of rows of class
\* 1 that a draw of n_draws rows out of class counts (c0, c1) may hold.
\* Largest remainder first; equal remainders are broken by the generator.
ApproximateMode1(c0, c1, n_draws) ==
    LET n  == c0 + c1
        f0 == (c0 * n_draws) \div n
        f1 == (c1 * n_draws) \div n
        r0 == (c0 * n_draws) % n
        r1 == (c1 * n_draws) % n
        need == n_draws - f0 - f1
    IN  IF need = 0 THEN {f1}
        ELSE IF r1 > r0 THEN {f1 + 1}
        ELSE IF r0 > r1 THEN {f1}
        ELSE {f1, f1 + 1}

\* the index sets train_test_split may return as indices_test for the
\* indices 0 .. nb-1.  The shuffle is the pseudo-random generator's: every
\* permutation is possible.
TrainTestSplit(nb, cur, stratify) ==
    LET idx == 0 .. (nb - 1)
        ones == {i \in idx : cur[i + 1] = 1}
    IN  IF ~stratify
        THEN {t \in SUBSET idx : Cardinality(t) = NTest(nb)}
        ELSE LET c1 == Cardinality(ones)
                 c0 == nb - c1
             IN  {t \in SUBSET idx :
                    /\ Cardinality(t) = NTest(nb)
                    /\ \E k1 \in ApproximateMode1(c0, c1, NTrain(nb)) :
                          Cardinality(t \cap ones) = c1 - k1}

\* for i in np.arange(nb): "test" if i in indices_test else "train"
SetsOfTestOnly(nb, indices_test) ==
    FilterIdx([i \in 1 .. nb |-> "test"],
              [i \in 1 .. nb |-> (i - 1) \in indices_test], 1)

SetsOf(nb, indices_test) ==
    [i \in 1 .. nb |-> IF (i - 1) \in indices_test THEN "test" ELSE "train"]

\* the selection of FedHeartDisease.__init__
ToSelectOr(ss, cs, chosen_sets, chosen_centers) ==
    [i \in DOMAIN ss |-> ss[i] \in chosen_sets \/ cs[i] \in chosen_centers]

ToSelect(ss, cs, chosen_sets, chosen_centers) ==
    [i \in DOMAIN ss |-> ss[i] \in chosen_sets /\ cs[i] \in chosen_centers]

\* mean(axis=0) and std(axis=0) of the features tensor, as exact rationals:
\* mean = sum / n, std^2 = (n * sumsq - sum^2) / (n * (n - 1))
FeatureStats(fs) ==
    LET n == Len(fs)
        s == SumSeq(fs)
        q == SumSeq([i \in DOMAIN fs |-> fs[i] * fs[i]])
    IN  [n |-> n, sum |-> s, varnum |-> n * q - s * s, varden |-> n * (n - 1)]

\* __getitem__: X = (features[idx] - mean) / std, as the numerator of X
\* over the denominator stats.n * std (idx counts from 0)
GetItem(idx) == stats.n * features[idx + 1] - stats.sum

NoStats == [n |-> 0, sum |-> 0, varnum |-> 0, varden |-> 0]
NoChosen == [center |-> 0, train |-> TRUE, pooled |-> FALSE,
             centers |-> {}, sets |-> {}]
NoRaw == [features |-> <<>>, labels |-> <<>>, centers |-> <<>>, sets |-> <<>>]

InitHeartVars ==
    /\ hpc = "start"
    /\ data_path \in {"None", "exists", "missing"}
    /\ data_dir = "unset"
    /\ configConsulted = FALSE
    /\ initialised = FALSE
    /\ filesRead = {}
    /\ features = <<>>
    /\ labels = <<>>
    /\ centers = <<>>
    /\ sets = <<>>
    /\ splits = <<>>
    /\ stats = NoStats
    /\ chosen = NoChosen
    /\ raw = NoRaw
    /\ exception = "none"

\* lines 54-78: the data directory, then the empty attributes
Construct ==
    /\ HeartFrame
    /\ hpc = "start"
    /\ LET r == ResolveDataDir(data_path)
       IN  /\ data_dir' = r.dir
           /\ configConsulted' = r.consulted
           /\ exception' = r.exc
           /\ hpc' = IF r.exc = "none" THEN "loop" ELSE "failed"
           /\ initialised' = (r.exc = "none")
    /\ UNCHANGED <<data_path, filesRead, features, labels, centers, sets,
                   splits, stats, chosen, raw>>

\* lines 80-120: one iteration of the loop over the center files
ProcessFile(c, file) ==
    /\ HeartFrame
    /\ hpc = "loop"
    /\ c \notin filesRead
    /\ Cardinality(filesRead) < MaxFiles
    /\ LET df == DropNa(file)
           nb == Len(df)
           current_labels == [i \in 1 .. nb |-> Binarise(df[i].y)]
           stratify == StratifyCond(current_labels)
       IN  /\ filesRead' = filesRead \cup {c}
           /\ features' = features \o [i \in 1 .. nb |-> df[i].x]
           /\ labels' = labels \o [i \in 1 .. nb |-> df[i].y]
           /\ centers' = centers \o [i \in 1 .. nb |-> c]
           /\ splits' = Append(splits, [center |-> c, nb |-> nb,
                                        stratify |-> stratify,
                                        first |-> Len(sets)])
           /\ IF SplitRaises(nb)
              THEN /\ exception' = "ValueError"
                   /\ hpc' = "failed"
                   /\ sets' = sets
              ELSE \E indices_test \in
                        TrainTestSplit(nb, current_labels, stratify) :
                      /\ sets' = sets \o SetsOf(nb, indices_test)
                      /\ UNCHANGED <<exception, hpc>>
    /\ UNCHANGED <<data_path, data_dir, configConsulted, initialised,
                   stats, chosen, raw>>

\* lines 122-140: after the last file, the labels are binarised and the
\* mean and standard deviation of all the features are computed.  The
\* model follows one numeric feature column; get_dummies rewrites the two
\* categorical columns row by row and keeps the rows and their order.
EndLoop ==
    /\ HeartFrame
    /\ hpc = "loop"
    /\ IF features = <<>>
       THEN \* get_dummies finds no column 2 and 6 in the empty frame
            /\ exception' = "KeyError"
            /\ hpc' = "failed"
            /\ UNCHANGED <<labels, stats>>
       ELSE /\ labels' = [i \in DOMAIN labels |-> Binarise(labels[i])]
            /\ stats' = FeatureStats(features)
            /\ hpc' = "raw"
            /\ UNCHANGED exception
    /\ UNCHANGED <<data_path, data_dir, configConsulted, initialised,
                   filesRead, features, centers, sets, splits, chosen, raw>>

\* lines 198-218: FedHeartDisease keeps the rows of the chosen split and
\* centers
FedSelect(center, train, pooled) ==
    /\ HeartFrame
    /\ hpc = "raw"
    /\ IF center \notin centers_number
       THEN /\ exception' = "AssertionError"
            /\ hpc' = "failed"
            /\ UNCHANGED <<features, labels, centers, sets, chosen, raw>>
       ELSE LET chosen_centers == IF pooled THEN centers_number ELSE {center}
                chosen_sets == IF train THEN {"train"} ELSE {"test"}
                to_select == ToSelect(sets, centers, chosen_sets,
                                      chosen_centers)
            IN  /\ chosen' = [center |-> center, train |-> train,
                              pooled |-> pooled,
                              centers |-> chosen_centers,
                              sets |-> chosen_sets]
                /\ raw' = [features |-> features, labels |-> labels,
                           centers |-> centers, sets |-> sets]
                /\ features' = FilterIdx(features, to_select, 1)
                /\ sets' = FilterIdx(sets, to_select, 1)
                /\ labels' = FilterIdx(labels, to_select, 1)
                /\ centers' = FilterIdx(centers, to_select, 1)
                /\ hpc' = "fed"
                /\ UNCHANGED exception
    /\ UNCHANGED <<data_path, data_dir, configConsulted, initialised,
                   filesRead, splits, stats>>


IdleHeartVars ==
    /\ hpc = "idle"
    /\ data_path = "None"
    /\ data_dir = "unset"
    /\ configConsulted = FALSE
    /\ initialised = FALSE
    /\ filesRead = {}
    /\ features = <<>>
    /\ labels = <<>>
    /\ centers = <<>>
    /\ sets = <<>>
    /\ splits = <<>>
    /\ stats = NoStats
    /\ chosen = NoChosen
    /\ raw = NoRaw
    /\ exception = "none"

(***************************************************************************)
(* results/plot_results.py                                                 *)
(***************************************************************************)

\* strategies_names
strategies_names ==
    <<"FedAvg", "Scaffold", "FedProx", "Cyclic", "FedAdagrad", "FedYogi",
      "FedAdam">>

\* a value of the Method column: "Pooled Training", "Local <n>" or
\* "<strategy><n>"
Method(kind, n) == [kind |-> kind, n |-> n]

\* strategies = [strat + str(100) for strat in strategies_names]
strategies ==
    [i \in DOMAIN strategies_names |-> Method(strategies_names[i], 100)]

\* the dataset names of dirs_multiple_seeds, in order
all_dataset_names ==
    <<"fed_camelyon16", "fed_lidc_idri", "fed_ixi", "fed_tcga_brca",
      "fed_kits19", "fed_isic2019", "fed_heart_disease">>

dataset_names == SubSeq(all_dataset_names, 1, MaxDirs)

\* "lidc" in name.lower()
IsLidc(name) == name = "fed_lidc_idri"

\* the seeds of a complete benchmark, and a further one
BenchSeeds == 42 .. 46
Seeds == 42 .. 47

\* the values of the Test column: the test set of one client, or "Pooled Test"
Tests == {"Client Test", "Pooled Test"}

\* the methods that occur in the csv files: the expected ones for MaxClients
\* clients, and a strategy with another number of updates
FileMethods ==
    {Method("Pooled Training", 0)}
      \cup {Method("Local", i) : i \in 0 .. (MaxClients - 1)}
      \cup {strategies[i] : i \in DOMAIN strategies}
      \cup {Method("FedAvg", 20)}

Keys == FileMethods \X Seeds \X Tests

\* current_methods
CurrentMethods(nc) ==
    <<Method("Pooled Training", 0)>>
      \o [i \in 1 .. nc |-> Method("Local", i - 1)]
      \o strategies

\* the rows of a complete benchmark of a dataset: per method and seed one
\* row per client test set and one "Pooled Test" row; LIDC has one seed
Complete(name, nc) ==
    [k \in Keys |->
        IF /\ k[1] \in {CurrentMethods(nc)[i] : i \in 1 .. (nc + 8)}
           /\ k[2] \in (IF IsLidc(name) THEN {42} ELSE BenchSeeds)
        THEN (IF k[3] = "Pooled Test" THEN 1 ELSE nc)
        ELSE 0]

\* res.loc[res["Test"] != "Pooled Test"], then
\* res.loc[res["Method"].isin(current_methods)]
Filtered(t, nc) ==
    LET current_methods == {CurrentMethods(nc)[i] : i \in 1 .. (nc + 8)}
    IN  [k \in Keys |->
            IF k[3] # "Pooled Test" /\ k[1] \in current_methods
            THEN t[k] ELSE 0]

\* res["Method"].unique(), res["seed"].unique()
UniqueMethods(t) == {k[1] : k \in {x \in Keys : t[x] > 0}}
UniqueSeeds(t) == {k[2] : k \in {x \in Keys : t[x] > 0}}

\* len(res.loc[res["Method"] == m].index)
RowsOf(t, m) ==
    SumSeq([i \in 1 .. 6 |-> t[<<m, 41 + i, "Client Test">>]
                               + t[<<m, 41 + i, "Pooled Test">>]])

\* len(current_palette) for the 14 colours of the palette
PaletteLen(nc) ==
    LET Min(a, b) == IF a < b THEN a ELSE b
    IN  1 + (Min(nc + 1, 14) - 1) + (14 - 7)

\* the assertions of one iteration of the loop: TRUE when all of them pass
ValidateNoSeeds(t, name, nc) ==
    LET res == Filtered(t, nc)
        current_methods == CurrentMethods(nc)
    IN  /\ Cardinality(UniqueMethods(res)) = Len(current_methods)
        /\ IF ~IsLidc(name)
           THEN \A i \in DOMAIN current_methods :
                   RowsOf(res, current_methods[i]) = nc * 5
           ELSE \A i \in DOMAIN current_methods :
                   RowsOf(res, current_methods[i]) = nc
        /\ PaletteLen(nc) = Len(current_methods)

ValidateNoCounts(t, name, nc) ==
    LET res == Filtered(t, nc)
        current_methods == CurrentMethods(nc)
    IN  /\ Cardinality(UniqueMethods(res)) = Len(current_methods)
        /\ ~IsLidc(name) => Cardinality(UniqueSeeds(res)) = 5
        /\ PaletteLen(nc) = Len(current_methods)

Validate(t, name, nc) ==
    LET res == Filtered(t, nc)
        current_methods == CurrentMethods(nc)
    IN  /\ Cardinality(UniqueMethods(res)) = Len(current_methods)
        /\ IF ~IsLidc(name)
           THEN /\ Cardinality(UniqueSeeds(res)) = 5
                /\ \A i \in DOMAIN current_methods :
                      RowsOf(res, current_methods[i]) = nc * 5
           ELSE \A i \in DOMAIN current_methods :
                   RowsOf(res, current_methods[i]) = nc
        /\ PaletteLen(nc) = Len(current_methods)

InitPlotVars ==
    /\ pphase = "read"
    /\ num_clients \in {[d \in 1 .. MaxDirs |-> nc] : nc \in 1 .. MaxClients}
    /\ results = [d \in 1 .. MaxDirs |->
                     Complete(dataset_names[d], num_clients[d])]
    /\ deviations = 0
    /\ loop_idx = 0
    /\ drawn = {}
    /\ perr = "none"

\* lines 61-66: a csv file holds one more row than the complete benchmark
ExtraRow(d, k) ==
    /\ PlotFrame
    /\ pphase = "read"
    /\ deviations < MaxDeviations
    /\ results' = [results EXCEPT ![d][k] = @ + 1]
    /\ deviations' = deviations + 1
    /\ UNCHANGED <<pphase, num_clients, loop_idx, drawn, perr>>

\* lines 61-66: a row of the complete benchmark is not in the csv files
MissingRow(d, k) ==
    /\ PlotFrame
    /\ pphase = "read"
    /\ deviations < MaxDeviations
    /\ results[d][k] > 0
    /\ results' = [results EXCEPT ![d][k] = @ - 1]
    /\ deviations' = deviations + 1
    /\ UNCHANGED <<pphase, num_clients, loop_idx, drawn, perr>>

\* lines 61-66: the csv files hold no row of a method
MissingMethod(d, m) ==
    /\ PlotFrame
    /\ pphase = "read"
    /\ deviations < MaxDeviations
    /\ \E k \in Keys : k[1] = m /\ results[d][k] > 0
    /\ results' = [results EXCEPT ![d] =
                      [k \in Keys |-> IF k[1] = m THEN 0 ELSE @[k]]]
    /\ deviations' = deviations + 1
    /\ UNCHANGED <<pphase, num_clients, loop_idx, drawn, perr>>

\* lines 61-66: the csv file of a seed is not in the directory
MissingSeed(d, sd) ==
    /\ PlotFrame
    /\ pphase = "read"
    /\ deviations < MaxDeviations
    /\ \E k \in Keys : k[2] = sd /\ results[d][k] > 0
    /\ results' = [results EXCEPT ![d] =
                      [k \in Keys |-> IF k[2] = sd THEN 0 ELSE @[k]]]
    /\ deviations' = deviations + 1
    /\ UNCHANGED <<pphase, num_clients, loop_idx, drawn, perr>>

\* lines 68-73: all files are read, the figure is created
StartPlot ==
    /\ PlotFrame
    /\ pphase = "read"
    /\ pphase' = "plot"
    /\ UNCHANGED <<num_clients, results, deviations, loop_idx, drawn, perr>>

\* lines 74-159: one iteration of the loop over the datasets
PlotDataset ==
    /\ PlotFrame
    /\ pphase = "plot"
    /\ loop_idx < Len(dataset_names)
    /\ LET d == loop_idx + 1
       IN  IF Validate(results[d], dataset_names[d], num_clients[d])
           THEN /\ drawn' = drawn \cup {d}
                /\ loop_idx' = loop_idx + 1
                /\ UNCHANGED <<pphase, perr>>
           ELSE /\ perr' = "AssertionError"
                /\ pphase' = "aborted"
                /\ UNCHANGED <<drawn, loop_idx>>
    /\ UNCHANGED <<num_clients, results, deviations>>

\* lines 161-166: the figure is saved
SaveFig ==
    /\ PlotFrame
    /\ pphase = "plot"
    /\ loop_idx = Len(dataset_names)
    /\ pphase' = "saved"
    /\ UNCHANGED <<num_clients, results, deviations, loop_idx, drawn, perr>>

IdlePlotVars ==
    /\ pphase = "idle"
    /\ num_clients = <<>>
    /\ results = <<>>
    /\ deviations = 0
    /\ loop_idx = 0
    /\ drawn = {}
    /\ perr = "none"


(***************************************************************************)
(* fed_tcga_brca/loss.py                                                   *)
(***************************************************************************)
\* one sample: the model output and the ground truth (E, T)
Sample == [score : 0 .. MaxScore, E : {0, 1}, T : 1 .. MaxTime]

\* torch.stack((squeeze(scores), truth[:, 0], truth[:, 1]), dim=1):
\* one row <<score, E, T>> per sample
Stack(b) == [i \in DOMAIN b |-> <<b[i].score, b[i].E, b[i].T>>]

\* sorted(a, key=lambda a: -a[2]): Python's sort is stable, rows of equal
\* key keep the order in which they were passed
RECURSIVE InsertByKey(_, _)
InsertByKey(srt, r) ==
    IF srt = <<>> THEN <<r>>
    ELSE IF -r[3] < -Head(srt)[3] THEN <<r>> \o srt
         ELSE <<Head(srt)>> \o InsertByKey(Tail(srt), r)

RECURSIVE SortedByKey(_)
SortedByKey(a) ==
    IF a = <<>> THEN <<>>
    ELSE InsertByKey(SortedByKey(SubSeq(a, 1, Len(a) - 1)), a[Len(a)])

\* scores.max()
RECURSIVE MaxSeq(_)
MaxSeq(q) ==
    IF Len(q) = 1 THEN q[1]
    ELSE LET m == MaxSeq(Tail(q)) IN IF q[1] > m THEN q[1] ELSE m

RECURSIVE Pow(_, _)
Pow(b, e) == IF e = 0 THEN 1 ELSE b * Pow(b, e - 1)

\* torch.exp(x) for x in -MaxScore .. 0, in units of exp(-MaxScore); the
\* base of the exponential is modelled by 2
Exp(x) == Pow(2, x + MaxScore)

\* cumsum(0)
RECURSIVE CumSum(_)
CumSum(q) ==
    IF q = <<>> THEN <<>>
    ELSE LET c == CumSum(SubSeq(q, 1, Len(q) - 1))
         IN  Append(c, (IF c = <<>> THEN 0 ELSE c[Len(c)]) + q[Len(q)])

RECURSIVE ProdSeq(_)
ProdSeq(q) == IF q = <<>> THEN 1 ELSE Head(q) * ProdSeq(Tail(q))

\* forward: the sorted tensor, the cumulated sums, and the returned mean.
\* The terms -(scores_ - log(cumsum)) * events add up to
\* log(prod cumsum^events / prod exp(scores_)^events), so the mean is kept
\* exactly as log(num / den) / n.
Forward(b) ==
    LET a == SortedByKey(Stack(b))
        scores == [i \in DOMAIN a |-> a[i][1]]
        events == [i \in DOMAIN a |-> a[i][2]]
        mx == MaxSeq(scores)
        scores_ == [i \in DOMAIN a |-> scores[i] - mx]
        ex == [i \in DOMAIN a |-> Exp(scores_[i])]
        cs == CumSum(ex)
    IN  [a |-> a,
         cumsum |-> cs,
         mean |-> [num |-> ProdSeq([i \in DOMAIN a |-> Pow(cs[i], events[i])]),
                   den |-> ProdSeq([i \in DOMAIN a |-> Pow(ex[i], events[i])]),
                   n |-> Len(a)]]

NoMean == [num |-> 0, den |-> 0, n |-> 0]

InitLossVars ==
    /\ lphase = "call"
    /\ batch \in UNION {[1 .. n -> Sample] : n \in 1 .. MaxSamples}
    /\ sorted_a = <<>>
    /\ cumsum = <<>>
    /\ out = NoMean
    /\ first_out = NoMean

IdleLossVars ==
    /\ lphase = "idle"
    /\ batch = <<>>
    /\ sorted_a = <<>>
    /\ cumsum = <<>>
    /\ out = NoMean
    /\ first_out = NoMean

\* lines 22-30: one call loss(scores, truth)
ForwardCall ==
    /\ LossFrame
    /\ lphase \in {"call", "reordered"}
    /\ LET r == Forward(batch)
       IN  /\ sorted_a' = r.a
           /\ cumsum' = r.cumsum
           /\ out' = r.mean
           /\ first_out' = IF lphase = "call" THEN r.mean ELSE first_out
    /\ lphase' = "done"
    /\ UNCHANGED batch

\* the caller passes the same samples in another order: rows i and i+1 of
\* scores and truth change places
Reorder(i) ==
    /\ LossFrame
    /\ lphase = "done"
    /\ i \in 1 .. (Len(batch) - 1)
    /\ batch[i] # batch[i + 1]
    /\ batch' = [batch EXCEPT ![i] = batch[i + 1], ![i + 1] = batch[i]]
    /\ lphase' = "reordered"
    /\ UNCHANGED <<sorted_a, cumsum, out, first_out>>

(***************************************************************************)
(* fed_camelyon16/dataset_creation_scripts/update_config.py                *)
(***************************************************************************)
\* the characters of a command line argument
PathChars == {"/", "d", "0", "1"}

\* the strings of at most MaxPathLen characters
Strings == UNION {[1 .. n -> PathChars] : n \in 0 .. MaxPathLen}

\* a value of a config file: a string or an integer
StrValue(text) == [kind |-> "str", text |-> text, num |-> 0]
IntValue(num) == [kind |-> "int", text |-> <<>>, num |-> num]

\* int(text): the decimal number, or ValueError when text is no number
RECURSIVE Decimal(_)
Decimal(text) ==
    IF text = <<>> THEN 0
    ELSE 10 * Decimal(SubSeq(text, 1, Len(text) - 1))
           + (IF text[Len(text)] = "1" THEN 1 ELSE 0)

IsNumber(text) == text # <<>> /\ \A i \in DOMAIN text : text[i] \in {"0", "1"}

\* parser.parse_args(): --new-path is required and has type=int
ParseArgs(av) ==
    IF ~av.given THEN [ok |-> FALSE, new_path |-> IntValue(0)]
    ELSE IF ~IsNumber(av.text) THEN [ok |-> FALSE, new_path |-> IntValue(0)]
    ELSE [ok |-> TRUE, new_path |-> IntValue(Decimal(av.text))]

\* flamby.utils.get_config_file_path(debug): the debug config or the real one
get_config_file_path(debug) == IF debug THEN "debug" ELSE "real"

\* flamby.utils.write_config(path, key, value) for key = "dataset_path"
write_config(cfg, path, value) == [cfg EXCEPT ![path] = value]

OldConfig == [f \in {"debug", "real"} |-> StrValue(<<"d">>)]

InitConfigVars ==
    /\ cphase = "start"
    /\ argv \in [given : BOOLEAN, text : Strings, debug : BOOLEAN]
    /\ ~argv.given => argv.text = <<>>
    /\ config = OldConfig
    /\ exit_code = 0

IdleConfigVars ==
    /\ cphase = "idle"
    /\ argv = [given |-> FALSE, text |-> <<>>, debug |-> FALSE]
    /\ config = OldConfig
    /\ exit_code = 0

\* lines 5-20: the script
Main ==
    /\ ConfigFrame
    /\ cphase = "start"
    /\ LET args == ParseArgs(argv)
       IN  IF ~args.ok
           THEN \* argparse prints the usage and exits with status 2
                /\ cphase' = "exit"
                /\ exit_code' = 2
                /\ UNCHANGED config
           ELSE /\ config' = write_config(config,
                                          get_config_file_path(argv.debug),
                                          args.new_path)
                /\ cphase' = "written"
                /\ UNCHANGED exit_code
    /\ UNCHANGED argv

(***************************************************************************)
(* Specifications                                                          *)
(***************************************************************************)
\* the centers whose file the data directory may hold
DirCenters == 0 .. (MaxFiles - 1)

\* the center files of at most k complete lines, with at most MaxMissing
\* incomplete lines at the head or at the end of the file (dropna looks at
\* no line's position)
Files(k) ==
    UNION {{FileOf(n + j, miss, ys) :
              ys \in [1 .. (n + j) -> LabelValues],
              miss \in {1 .. j, (n + 1) .. (n + j)}} :
             <<n, j>> \in (0 .. k) \X (0 .. MaxMissing)}

\* the center arguments tried: the centers of the directory, a center
\* without a file, and a value that is no center
CenterArgs == DirCenters \cup {3, 4}

\* lines 80-120 for the next center file of the directory, the listing
\* giving the files in the order of their centers
ReadFile ==
    /\ hpc = "loop"
    /\ \E c \in {d \in DirCenters : \A e \in filesRead : e < d},
          file \in Files(MaxRows - Len(features)) : ProcessFile(c, file)

\* the same for the smaller directories on which FedHeartDisease is built,
\* the listing giving the files in any order
ReadSmallFile ==
    /\ hpc = "loop"
    /\ \E c \in DirCenters \ filesRead,
          file \in Files(MaxFedRows - Len(features)) : ProcessFile(c, file)

\* FedHeartDisease.__init__ after super().__init__ has returned
Select ==
    /\ hpc = "raw"
    /\ \E center \in CenterArgs, train \in BOOLEAN, pooled \in BOOLEAN :
          FedSelect(center, train, pooled)

InitHeart ==
    InitHeartVars /\ IdlePlotVars /\ IdleLossVars /\ IdleConfigVars

\* the construction of a HeartDiseaseRaw
NextHeart ==
    \/ Construct
    \/ ReadFile
    \/ EndLoop

SpecHeart == InitHeart /\ [][NextHeart]_vars

\* the construction of a FedHeartDisease
NextFed ==
    \/ Construct
    \/ ReadSmallFile
    \/ EndLoop
    \/ Select

SpecFed == InitHeart /\ [][NextFed]_vars

\* the rows, methods and seeds in which the files may deviate from a
\* complete benchmark
DevMethods == {Method("Local", 0), Method("FedAvg", 20)}
DevSeeds == {42, 47}
DevKeys ==
    {<<Method("Local", 0), 42, "Client Test">>,
     <<Method("Local", 0), 43, "Client Test">>,
     <<Method("Local", 0), 47, "Client Test">>,
     <<Method("Local", 0), 42, "Pooled Test">>,
     <<Method("FedAvg", 20), 42, "Client Test">>}

ReadExtraRow ==
    pphase = "read" /\ \E d \in 1 .. MaxDirs, k \in DevKeys : ExtraRow(d, k)

ReadMissingRow ==
    pphase = "read" /\ \E d \in 1 .. MaxDirs, k \in DevKeys : MissingRow(d, k)

ReadMissingMethod ==
    pphase = "read" /\ \E d \in 1 .. MaxDirs, m \in DevMethods :
                          MissingMethod(d, m)

ReadMissingSeed ==
    pphase = "read" /\ \E d \in 1 .. MaxDirs, sd \in DevSeeds :
                          MissingSeed(d, sd)

InitPlot ==
    InitPlotVars /\ IdleHeartVars /\ IdleLossVars /\ IdleConfigVars

NextPlot ==
    \/ ReadExtraRow
    \/ ReadMissingRow
    \/ ReadMissingMethod
    \/ ReadMissingSeed
    \/ StartPlot
    \/ PlotDataset
    \/ SaveFig

SpecPlot == InitPlot /\ [][NextPlot]_vars

InitLoss ==
    InitLossVars /\ IdleHeartVars /\ IdlePlotVars /\ IdleConfigVars

NextLoss ==
    \/ ForwardCall
    \/ \E i \in 1 .. MaxSamples : Reorder(i)

SpecLoss == InitLoss /\ [][NextLoss]_vars

InitConfig ==
    InitConfigVars /\ IdleHeartVars /\ IdlePlotVars /\ IdleLossVars

NextConfig == Main

SpecConfig == InitConfig /\ [][NextConfig]_vars

(***************************************************************************)
(* Properties of fed_heart_disease/dataset.py                              *)
(***************************************************************************)
\* the positions of the rows of the file described by the record sp
Block(sp) == (sp.first + 1) .. (sp.first + sp.nb)

\* the rows of a block with a given split label, with binarised label 1
InSet(sp, ss, lab) == {i \in Block(sp) : ss[i] = lab}
Ones(sp, ls) == {i \in Block(sp) : Binarise(ls[i]) = 1}

\* HeartDiseaseRaw.__init__ is between two files or has returned
Loaded == hpc \in {"loop", "raw"}

\* C1: after HeartDiseaseRaw.__init__ has processed center files, sets,
\* centers and features have the same length and are index-aligned (the
\* rows of each file, in file order, carry the center of the file), every
\* row has one split label among "train" and "test", and per center the
\* train positions and the test positions are disjoint and cover the rows
\* of the center.
Inv_C1 ==
    Loaded =>
        /\ Len(sets) = Len(centers)
        /\ Len(centers) = Len(features)
        /\ Len(features) = Len(labels)
        /\ \A k \in DOMAIN splits :
              /\ Block(splits[k]) \subseteq DOMAIN sets
              /\ \A i \in Block(splits[k]) :
                    /\ centers[i] = splits[k].center
                    /\ features[i] = i - splits[k].first
        /\ \A c \in centers_number :
              LET rows == {i \in DOMAIN centers : centers[i] = c}
                  tr == {i \in DOMAIN sets : i \in rows /\ sets[i] = "train"}
                  te == {i \in DOMAIN sets : i \in rows /\ sets[i] = "test"}
              IN  tr \cap te = {} /\ tr \cup te = rows

\* C1 witness: two centers have been loaded, each with train and test rows
Wit_C1 ==
    /\ hpc = "raw"
    /\ Len(splits) = 2
    /\ \A k \in DOMAIN splits :
          InSet(splits[k], sets, "train") # {} /\ InSet(splits[k], sets, "test") # {}

\* C2: a center of n >= 2 retained rows has floor(0.66 n) train rows and
\* ceil(0.34 n) test rows, and the two counts sum to n.
Inv_C2 ==
    Loaded =>
        \A k \in DOMAIN splits :
            LET n == splits[k].nb
                t == Cardinality({i \in DOMAIN sets : i \in Block(splits[k])
                                                      /\ sets[i] = "train"})
                u == Cardinality({i \in DOMAIN sets : i \in Block(splits[k])
                                                      /\ sets[i] = "test"})
            IN  n >= 2 =>
                  /\ 100 * t <= 66 * n /\ 66 * n < 100 * (t + 1)
                  /\ 100 * (u - 1) < 34 * n /\ 34 * n <= 100 * u
                  /\ t + u = n

\* C2 witness: a center of 5 rows has been split 3 / 2
Wit_C2 ==
    /\ hpc = "raw"
    /\ \E k \in DOMAIN splits :
          /\ splits[k].nb = 5
          /\ Cardinality(InSet(splits[k], sets, "train")) = 3
          /\ Cardinality(InSet(splits[k], sets, "test")) = 2

\* the label-1 rows of a part of a center are within one row of the
\* center's share: | k1 - (c1 / n) * size | < 1
Proportional(sp, lab) ==
    LET part == InSet(sp, sets, lab)
        c1 == Cardinality(Ones(sp, labels))
        k1 == Cardinality(part \cap Ones(sp, labels))
    IN  Abs(k1 * sp.nb - c1 * Cardinality(part)) < sp.nb

\* C7 as stated: the split of every center is stratified on the binarised
\* label and keeps the share of label 1 within one row in both parts.
Orig_C7 ==
    Loaded =>
        \A k \in DOMAIN splits :
            /\ splits[k].stratify
            /\ Proportional(splits[k], "train")
            /\ Proportional(splits[k], "test")

\* both binarised labels occur in the center, each on more than 2 rows
BothLevelsAbove2(sp) ==
    /\ Cardinality(Ones(sp, labels)) > 2
    /\ sp.nb - Cardinality(Ones(sp, labels)) > 2

\* C7 amended: the split of a center is stratified exactly when both
\* binarised labels occur on more than 2 rows of it, and then the share of
\* label 1 in the train part and in the test part is within one row of
\* the center's share.
Inv_C7 ==
    Loaded =>
        \A k \in DOMAIN splits :
            /\ splits[k].stratify <=> BothLevelsAbove2(splits[k])
            /\ BothLevelsAbove2(splits[k]) =>
                  /\ Proportional(splits[k], "train")
                  /\ Proportional(splits[k], "test")

\* C7 witness: a center with 3 rows of each label has been split
Wit_C7 ==
    /\ hpc = "raw"
    /\ \E k \in DOMAIN splits :
          /\ BothLevelsAbove2(splits[k])
          /\ splits[k].stratify
          /\ InSet(splits[k], sets, "test") \cap Ones(splits[k], labels) # {}

\* the positions of the superclass lists that the request asks for
Wanted ==
    {i \in DOMAIN raw.sets :
        /\ raw.sets[i] = (IF chosen.train THEN "train" ELSE "test")
        /\ \/ chosen.pooled /\ raw.centers[i] \in 0 .. 3
           \/ ~chosen.pooled /\ raw.centers[i] = chosen.center}

\* the k-th smallest element of a set of positions
Kth(S, k) == CHOOSE i \in S : Cardinality({j \in S : j <= i}) = k

Inv_C8 ==
    /\ (data_path = "missing" /\ hpc # "start") =>
          /\ hpc = "failed"
          /\ exception = "ValueError"
          /\ filesRead = {}
          /\ ~initialised
          /\ data_dir = "unset"
          /\ features = <<>> /\ labels = <<>>
          /\ centers = <<>> /\ sets = <<>>
          /\ stats = NoStats
          /\ ~configConsulted
    /\ data_path = "exists" => ~configConsulted
    /\ (data_path = "None" /\ hpc # "start") => configConsulted

\* C8 witness: the constructor was called with a missing data_path
Wit_C8 == data_path = "missing" /\ hpc = "failed"

\* sums over the rows of the instance of the numerators of X and of their
\* squares
SumX == SumSeq([k \in DOMAIN features |-> GetItem(k - 1)])
SumX2 == SumSeq([k \in DOMAIN features |-> GetItem(k - 1) * GetItem(k - 1)])

\* C3 as stated: over a train instance the normalised feature has mean 0
\* and (sample) standard deviation 1:
\*   sum X = 0 and (m sum X^2 - (sum X)^2) / (m (m - 1)) = 1
\* with X = GetItem / (stats.n * std) and std^2 = varnum / varden.
Orig_C3 ==
    (hpc = "fed" /\ chosen.train /\ features # <<>>) =>
        LET m == Len(features)
        IN  /\ stats.varnum # 0
            /\ SumX = 0
            /\ (m * SumX2 - SumX * SumX) * stats.varden
                 = m * (m - 1) * stats.n * stats.n * stats.varnum

(***************************************************************************)
(* Properties of results/plot_results.py                                   *)
(***************************************************************************)
\* the methods a dataset of nc clients must have results for
ExpectedMethods(nc) ==
    {Method("Pooled Training", 0)}
      \cup {Method("Local", i) : i \in 0 .. (nc - 1)}
      \cup {Method(st, 100) : st \in {"FedAvg", "Scaffold", "FedProx", "Cyclic",
                                      "FedAdagrad", "FedYogi", "FedAdam"}}

\* the rows of method m (of seed sd) that are not "Pooled Test" rows
ClientRowsOfSeed(t, m, sd) == t[<<m, sd, "Client Test">>]
ClientRows(t, m) ==
    ClientRowsOfSeed(t, m, 42) + ClientRowsOfSeed(t, m, 43)
      + ClientRowsOfSeed(t, m, 44) + ClientRowsOfSeed(t, m, 45)
      + ClientRowsOfSeed(t, m, 46) + ClientRowsOfSeed(t, m, 47)

\* the seeds of those rows of the expected methods
SeedsSeen(t, nc) ==
    {sd \in Seeds : \E m \in ExpectedMethods(nc) :
                       ClientRowsOfSeed(t, m, sd) > 0}

\* the row counts of dataset d match its client / seed count
Matches(d) ==
    LET t == results[d]
        nc == num_clients[d]
    IN  /\ \A m \in ExpectedMethods(nc) : ClientRows(t, m) > 0
        /\ IF IsLidc(dataset_names[d])
           THEN \A m \in ExpectedMethods(nc) : ClientRows(t, m) = nc
           ELSE /\ \A m \in ExpectedMethods(nc) : ClientRows(t, m) = nc * 5
                /\ Cardinality(SeedsSeen(t, nc)) = 5

\* the loop stopped at dataset d
AbortedAt(d) == pphase = "aborted" /\ d = loop_idx + 1

\* C4: a dataset is drawn only if, without its "Pooled Test" rows, every
\* expected method is present with num_clients*5 rows and 5 distinct seeds
\* overall (LIDC: num_clients rows); a dataset that does not match aborts
\* the script with an assertion failure before its chart is drawn, and no
\* matching dataset is rejected.
Inv_C4 ==
    \A d \in 1 .. MaxDirs :
        /\ d \in drawn => Matches(d)
        /\ AbortedAt(d) =>
              /\ ~Matches(d)
              /\ perr = "AssertionError"
              /\ d \notin drawn
        /\ pphase = "saved" => d \in drawn

\* C4 witness: a dataset with every expected method present, but a wrong
\* row count, has aborted the script
Wit_C4 ==
    \E d \in 1 .. MaxDirs :
        /\ AbortedAt(d)
        /\ perr = "AssertionError"
        /\ \A m \in ExpectedMethods(num_clients[d]) :
              ClientRows(results[d], m) > 0
        /\ \E m \in ExpectedMethods(num_clients[d]) :
              ClientRows(results[d], m) # num_clients[d] * 5

\* each seed of dataset d has the same number of rows of method m
EvenOverSeeds(d) ==
    \A m \in ExpectedMethods(num_clients[d]) :
        \A sd \in SeedsSeen(results[d], num_clients[d]) :
            ClientRowsOfSeed(results[d], m, sd) = num_clients[d]

\* C5 as stated: a non-LIDC dataset is accepted only if each (expected
\* method, seed) pair has exactly num_clients rows.
Orig_C5 ==
    \A d \in drawn : ~IsLidc(dataset_names[d]) => EvenOverSeeds(d)

\* C5 amended: a non-LIDC dataset is accepted only if each expected method
\* has exactly num_clients*5 rows summed over the seeds and the rows carry
\* exactly 5 distinct seeds; how the rows of a method are distributed over
\* the seeds is not checked.
Inv_C5 ==
    \A d \in drawn :
        ~IsLidc(dataset_names[d]) =>
            /\ \A m \in ExpectedMethods(num_clients[d]) :
                  SumSeq([i \in 1 .. 6 |->
                            ClientRowsOfSeed(results[d], m, 41 + i)])
                    = 5 * num_clients[d]
            /\ Cardinality(SeedsSeen(results[d], num_clients[d])) = 5

\* C5 witness: an accepted dataset in which a method misses a row of one
\* seed and has one row too many of another seed
Wit_C5 ==
    \E d \in drawn :
        /\ ~IsLidc(dataset_names[d])
        /\ ~EvenOverSeeds(d)

(***************************************************************************)
(* Properties of fed_tcga_brca/loss.py                                     *)
(***************************************************************************)
\* the two means log(num / den) / n are the same number
SameMean(x, y) == x.n = y.n /\ x.num * y.den = y.num * x.den

\* the rows of a are the rows of b in some order
IsPermutation(a, b) ==
    /\ Len(a) = Len(b)
    /\ \A r \in {a[i] : i \in DOMAIN a} \cup {b[i] : i \in DOMAIN b} :
          Count(a, {r}) = Count(b, {r})

\* exp(score - max score) of a row
ExpOfRow(r) ==
    Exp(r[1] - MaxSeq([i \in DOMAIN sorted_a |-> sorted_a[i][1]]))

DistinctTimes ==
    \A i, j \in DOMAIN batch : i # j => batch[i].T # batch[j].T

\* the structure of the computation of the latest call of forward
Parts_C10 ==
    lphase = "done" =>
        /\ IsPermutation(sorted_a, Stack(batch))
        /\ \A k \in 1 .. (Len(sorted_a) - 1) :
              sorted_a[k][3] >= sorted_a[k + 1][3]
        /\ \A k \in DOMAIN sorted_a :
              cumsum[k] = SumSeq([j \in 1 .. k |-> ExpOfRow(sorted_a[j])])
        /\ DistinctTimes =>
              \A k \in DOMAIN sorted_a :
                 cumsum[k] =
                   SumSeq([j \in DOMAIN sorted_a |->
                             IF sorted_a[j][3] >= sorted_a[k][3]
                             THEN ExpOfRow(sorted_a[j]) ELSE 0])
        /\ out.n = Len(batch)
        /\ out.num = ProdSeq([k \in DOMAIN sorted_a |->
                                IF sorted_a[k][2] = 0 THEN 1 ELSE cumsum[k]])
        /\ out.den = ProdSeq([k \in DOMAIN sorted_a |->
                                IF sorted_a[k][2] = 0 THEN 1
                                ELSE ExpOfRow(sorted_a[k])])

\* the value does not depend on the order of the samples, when no two
\* samples have the same time
OrderFree_DistinctTimes ==
    (lphase = "done" /\ DistinctTimes) => SameMean(out, first_out)

\* C10 as stated: forward handles the samples in non-increasing order of
\* T, row by row; the denominator at sorted position k is the sum of
\* exp(score) over the positions 0..k; samples with E = 0 contribute 0;
\* the sum is divided by the number of samples; and the value returned
\* does not depend on the order in which the samples are passed.
Orig_C10 ==
    /\ Parts_C10
    /\ lphase = "done" => SameMean(out, first_out)

(***************************************************************************)
(* Properties of update_config.py                                          *)
(***************************************************************************)
\* C9 as stated: with --new-path set to a path string the script writes
\* that string under dataset_path into the config file selected by
\* --debug and leaves the other file alone; without --new-path it fails
\* and writes nothing.
Orig_C9 ==
    cphase # "start" =>
        IF argv.given /\ argv.text # <<>>
        THEN /\ cphase = "written"
             /\ config[get_config_file_path(argv.debug)] = StrValue(argv.text)
             /\ config[get_config_file_path(~argv.debug)]
                  = OldConfig[get_config_file_path(~argv.debug)]
        ELSE ~argv.given => (cphase = "exit" /\ config = OldConfig)

\* without --new-path, and with a --new-path that is no integer, the
\* script exits with status 2 and writes nothing
Parts_C9 ==
    (cphase # "start" /\ (~argv.given \/ ~IsNumber(argv.text))) =>
        (cphase = "exit" /\ exit_code = 2 /\ config = OldConfig)

====
